---- MODULE Spec2Model ----
(***************************************************************************)
(* A model of packages/common-all/src/util/treeUtil.ts (TreeUtils) and of  *)
(* the sidebar resolver that follows it in the same file (getSidebars).    *)
(*                                                                         *)
(* JavaScript strings are sequences of one-character strings, so that      *)
(* split("."), toLowerCase(), the relational operators and lodash's path   *)
(* parsing are computed and not assumed.  A value that may be undefined or *)
(* null is a record tagged by t.  An optional field (nav_order, label, a   *)
(* vault's name) is <<>> when undefined and <<v>> when set.                *)
(***************************************************************************)
EXTENDS Integers, Sequences, FiniteSets, TLC

VARIABLES
  \* TreeUtils.getAllParents: its arguments, its locals, its position
  child2parent, noteId, parent, activeNoteIds, pc,
  \* TreeUtils.sortNotesAtLevel: its arguments, and what each call returned
  noteIds, noteDict, labelType, sorted,
  \* createTreeFromEngine, createTreeFromFileNames, validateTreeNodes: their
  \* arguments and what each returned
  allNotes, rootNoteId, fNames, rootNote, engineTree, fileTree, validation,
  \* getSidebars: its arguments (input is the parsed configuration) and the
  \* result it returned
  notes, duplicateNoteBehavior, input, sidebarsResult,
  \* generateTreeData: its arguments (menuNotes is its noteDict) and the
  \* TreeMenu it returned
  menuNotes, sidebars, treeMenu

parentsVars == <<child2parent, noteId, parent, activeNoteIds, pc>>
sortVars == <<noteIds, noteDict, labelType, sorted>>
treeVars ==
  <<allNotes, rootNoteId, fNames, rootNote, engineTree, fileTree, validation>>
sidebarVars == <<notes, duplicateNoteBehavior, input, sidebarsResult>>
menuVars == <<menuNotes, sidebars, treeMenu>>
vars == <<parentsVars, sortVars, treeVars, sidebarVars, menuVars>>

\* What an operation leaves alone: the state of the other operations.
notParents == <<sortVars, treeVars, sidebarVars, menuVars>>
notSort == <<parentsVars, treeVars, sidebarVars, menuVars>>
notTree == <<parentsVars, sortVars, sidebarVars, menuVars>>
notSidebar == <<parentsVars, sortVars, treeVars, menuVars>>
notMenu == <<parentsVars, sortVars, treeVars, sidebarVars>>

-----------------------------------------------------------------------------
(* Strings *)

\* UTF-16 code units of the characters the model uses.
CharCode ==
  ("*" :> 42) @@ ("." :> 46) @@
  ("A" :> 65) @@ ("B" :> 66) @@ ("C" :> 67) @@ ("T" :> 84) @@ ("X" :> 88) @@
  ("a" :> 97) @@ ("b" :> 98) @@ ("c" :> 99) @@ ("d" :> 100) @@ ("e" :> 101) @@
  ("f" :> 102) @@ ("g" :> 103) @@ ("h" :> 104) @@ ("i" :> 105) @@
  ("l" :> 108) @@ ("m" :> 109) @@ ("n" :> 110) @@ ("o" :> 111) @@
  ("p" :> 112) @@ ("r" :> 114) @@ ("s" :> 115) @@ ("t" :> 116) @@
  ("u" :> 117) @@ ("v" :> 118) @@ ("x" :> 120) @@ ("y" :> 121) @@ ("z" :> 122)

\* String.prototype.toLowerCase on one character.
LowerChar(c) ==
  IF CharCode[c] >= 65 /\ CharCode[c] <= 90
  THEN CHOOSE d \in DOMAIN CharCode : CharCode[d] = CharCode[c] + 32
  ELSE c

toLowerCase(s) == [i \in 1..Len(s) |-> LowerChar(s[i])]

\* a < b on two strings: by code units, a proper prefix first.
RECURSIVE StrLess(_, _)
StrLess(a, b) ==
  IF b = <<>> THEN FALSE
  ELSE IF a = <<>> THEN TRUE
  ELSE IF Head(a) = Head(b) THEN StrLess(Tail(a), Tail(b))
  ELSE CharCode[Head(a)] < CharCode[Head(b)]

\* s.split("."): the pieces between the dots, an empty piece included.
RECURSIVE SplitFrom(_, _, _)
SplitFrom(s, i, piece) ==
  IF i > Len(s) THEN <<piece>>
  ELSE IF s[i] = "." THEN <<piece>> \o SplitFrom(s, i + 1, <<>>)
  ELSE SplitFrom(s, i + 1, Append(piece, s[i]))

split(s) == SplitFrom(s, 1, <<>>)

\* _.last
last(seq) == seq[Len(seq)]

\* Array.prototype.reverse / _.reverse
reverseSeq(seq) == [i \in 1..Len(seq) |-> seq[Len(seq) + 1 - i]]

\* The literals the code compares with.
S_tags == <<"t", "a", "g", "s">>
S_root == <<"r", "o", "o", "t">>
S_star == <<"*">>
TAGS_HIERARCHY_BASE == S_tags
ROOT_KEYWORD == S_star

-----------------------------------------------------------------------------
(* JavaScript values that may be undefined or null *)

Undefined == [t |-> "undefined", s |-> <<>>]
Null == [t |-> "null", s |-> <<>>]
Str(s) == [t |-> "string", s |-> s]

\* ToBoolean of such a value: undefined, null and "" are falsy.
Truthy(v) == v.t = "string" /\ v.s # <<>>

\* obj[key] on an object modelled as a function: undefined off its keys.
Lookup(obj, key) == IF key \in DOMAIN obj THEN obj[key] ELSE Undefined

\* The state of an operation that is not being exercised.
ParentsIdle ==
  /\ child2parent = <<>> /\ noteId = <<>> /\ parent = Undefined
  /\ activeNoteIds = <<>> /\ pc = "idle"
SortIdle ==
  /\ noteIds = <<>> /\ noteDict = <<>> /\ labelType = <<>> /\ sorted = <<>>
TreeIdle ==
  /\ allNotes = <<>> /\ rootNoteId = <<>> /\ fNames = <<>> /\ rootNote = <<>>
  /\ engineTree = <<>> /\ fileTree = <<>> /\ validation = <<>>
SidebarIdle ==
  /\ notes = <<>> /\ duplicateNoteBehavior = <<>> /\ input = <<>>
  /\ sidebarsResult = <<>>
MenuIdle == menuNotes = <<>> /\ sidebars = <<>> /\ treeMenu = <<>>

-----------------------------------------------------------------------------
(* TreeUtils.getAllParents *)

MaxIds == 3

IdPool == <<<<"a">>, <<"b">>, <<"c">>, <<"d">>, <<"e">>>>
ParentIds == {IdPool[i] : i \in 1..MaxIds}

\* The values a child2parent entry can hold: null or a string (the empty
\* string included).
ParentValues == {Null, Str(<<>>)} \cup {Str(k) : k \in ParentIds}

Child2ParentMaps ==
  UNION {[keys -> ParentValues] : keys \in SUBSET ParentIds}

\* The walk leaves the loop within this many iterations unless it is on a
\* cycle: every iteration but the last pushes a distinct key of the map.
WalkLimit == Cardinality(DOMAIN child2parent)

ParentsInit ==
  /\ SortIdle /\ TreeIdle /\ SidebarIdle /\ MenuIdle
  /\ child2parent \in Child2ParentMaps
  /\ noteId \in ParentIds
  /\ parent = Undefined
  /\ activeNoteIds = <<>>
  /\ pc = "call"

\* lines 183-184
GetAllParentsEnter ==
  /\ pc = "call"
  /\ activeNoteIds' = <<>>
  /\ parent' = Lookup(child2parent, noteId)
  /\ pc' = "while"
  /\ UNCHANGED <<child2parent, noteId, notParents>>

\* lines 185-188: one iteration.  The model stops following a walk one step
\* after WalkLimit, where it is known to be on a cycle.
GetAllParentsLoop ==
  /\ pc = "while"
  /\ Truthy(parent)
  /\ Len(activeNoteIds) <= WalkLimit
  /\ activeNoteIds' = <<parent.s>> \o activeNoteIds
  /\ parent' = Lookup(child2parent, parent.s)
  /\ UNCHANGED <<child2parent, noteId, pc, notParents>>

\* line 190
GetAllParentsReturn ==
  /\ pc = "while"
  /\ ~Truthy(parent)
  /\ pc' = "done"
  /\ UNCHANGED <<child2parent, noteId, parent, activeNoteIds, notParents>>

ParentsNext == GetAllParentsEnter \/ GetAllParentsLoop \/ GetAllParentsReturn

SpecParents == ParentsInit /\ [][ParentsNext]_vars

\* C1: getAllParents terminates for every child2parent map and every noteId,
\* also when the parent chain from noteId runs into a cycle.  A walk that
\* terminates never pushes the same id twice, so it makes at most as many
\* iterations as the map has keys.
C1_GetAllParentsTerminates == Len(activeNoteIds) <= WalkLimit

-----------------------------------------------------------------------------
(* TreeUtils.sortNotesAtLevel *)

MaxSortNotes == 3
MaxSortLen == 3

S_id == <<"i", "d">>
S_fname == <<"f", "n", "a", "m", "e">>
S_title == <<"t", "i", "t", "l", "e">>

SortKeys == {IdPool[i] : i \in 1..MaxSortNotes}

\* An id that is no key of noteDict but reads as a property path of it.
DottedId == IdPool[1] \o <<".">> \o S_id

\* The notes of noteDict.  The fields are those sortNotesAtLevel reads:
\* custom.nav_order (<<>> when not set), fname, title, updated.
SortNote(id, nav, fname, title, updated) ==
  [id |-> id, nav_order |-> nav, fname |-> fname, title |-> title,
   updated |-> updated]

SortNotesOf(id) ==
  LET SortFnames == {S_tags, <<"c", ".", "A">>}
      SortTitles == {<<"B">>, <<"a">>}
  IN IF id = IdPool[MaxSortNotes]
     THEN {SortNote(id, <<>>, f, t, 1) : f \in SortFnames, t \in SortTitles}
     ELSE {SortNote(id, nav, f, t, u) :
             nav \in {<<>>, <<1>>, <<2>>}, f \in SortFnames,
             t \in SortTitles, u \in {1, 2}}

SortDicts ==
  {d \in UNION {[keys -> UNION {SortNotesOf(k) : k \in keys}] :
                   keys \in SUBSET SortKeys} :
     \A k \in DOMAIN d : d[k].id = k}

Range(seq) == {seq[i] : i \in 1..Len(seq)}

\* The sequences without repetition of at most n elements of S.
RECURSIVE InjSeqs(_, _)
InjSeqs(S, n) ==
  IF n = 0 THEN {<<>>}
  ELSE LET shorter == InjSeqs(S, n - 1)
       IN shorter \cup
          UNION {{Append(q, x) : x \in S \ Range(q)} :
                   q \in {r \in shorter : Len(r) = n - 1}}

\* A property of a value reached while lodash walks a path: a note's
\* fields, a string's length; anything else is undefined.
JsUndefined == [k |-> "undefined", v |-> <<>>]
Prop(val, key) ==
  CASE val.k = "dict" ->
         IF key \in DOMAIN val.v THEN [k |-> "note", v |-> val.v[key]]
         ELSE JsUndefined
    [] val.k = "note" ->
         IF key = S_id THEN [k |-> "string", v |-> val.v.id]
         ELSE IF key = S_fname THEN [k |-> "string", v |-> val.v.fname]
         ELSE IF key = S_title THEN [k |-> "string", v |-> val.v.title]
         ELSE IF key = <<"u", "p", "d", "a", "t", "e", "d">>
         THEN [k |-> "number", v |-> val.v.updated]
         ELSE JsUndefined
    [] val.k = "string" ->
         IF key = <<"l", "e", "n", "g", "t", "h">>
         THEN [k |-> "number", v |-> Len(val.v)]
         ELSE JsUndefined
    [] OTHER -> JsUndefined

\* lodash baseGet: follow the path while the value is not null/undefined.
RECURSIVE BaseGet(_, _, _)
BaseGet(val, path, i) ==
  IF i > Len(path) THEN val
  ELSE IF val.k = "undefined" THEN JsUndefined
  ELSE BaseGet(Prop(val, path[i]), path, i + 1)

\* _.get(noteDict, noteId) !== undefined (line 206-207).  lodash takes
\* noteId as a key when it is one (isKey), and otherwise as a path whose
\* steps are separated by "." (stringToPath).
GetIsDefined(dict, id) ==
  IF id \in DOMAIN dict THEN TRUE
  ELSE BaseGet([k |-> "dict", v |-> dict], split(id), 1).k # "undefined"

\* lodash compareAscending on two values that are undefined (<<>>) or set:
\* undefined sorts after everything else.  On numbers, then on strings.
compareAscendingNum(value, other) ==
  IF value = other THEN 0
  ELSE IF value = <<>> THEN 1
  ELSE IF other = <<>> THEN -1
  ELSE IF value[1] > other[1] THEN 1
  ELSE IF value[1] < other[1] THEN -1
  ELSE 0

compareAscendingStr(value, other) ==
  IF value = other THEN 0
  ELSE IF value = <<>> THEN 1
  ELSE IF other = <<>> THEN -1
  ELSE IF StrLess(other[1], value[1]) THEN 1
  ELSE IF StrLess(value[1], other[1]) THEN -1
  ELSE 0

\* The three iteratees of the _.sortBy call (lines 226, 228-236, 238).
navOrderOf(dict, id) == IF id \in DOMAIN dict THEN dict[id].nav_order ELSE <<>>
labelOf(dict, lt, id) ==
  IF id \notin DOMAIN dict THEN <<>>
  ELSE IF lt = <<"filename">>
       THEN <<toLowerCase(last(split(dict[id].fname)))>>
       ELSE <<toLowerCase(dict[id].title)>>
updatedOf(dict, id) == IF id \in DOMAIN dict THEN <<dict[id].updated>> ELSE <<>>

\* lodash compareMultiple: the first criterion that differs decides, the
\* position in the input breaks a tie (the sort is stable).
compareMultiple(dict, lt, a, b) ==
  LET c1 == compareAscendingNum(navOrderOf(dict, a.value),
                                navOrderOf(dict, b.value))
      c2 == compareAscendingStr(labelOf(dict, lt, a.value),
                                labelOf(dict, lt, b.value))
      c3 == compareAscendingNum(updatedOf(dict, a.value),
                                updatedOf(dict, b.value))
  IN IF c1 # 0 THEN c1
     ELSE IF c2 # 0 THEN c2
     ELSE IF c3 # 0 THEN c3
     ELSE a.index - b.index

\* Array.prototype.sort with compareMultiple, a total order: insertion.
RECURSIVE InsertBy(_, _, _, _)
InsertBy(dict, lt, x, seq) ==
  IF seq = <<>> THEN <<x>>
  ELSE IF compareMultiple(dict, lt, x, Head(seq)) < 0 THEN <<x>> \o seq
  ELSE <<Head(seq)>> \o InsertBy(dict, lt, x, Tail(seq))

RECURSIVE SortBy(_, _, _)
SortBy(dict, lt, seq) ==
  IF seq = <<>> THEN <<>>
  ELSE InsertBy(dict, lt, Head(seq), SortBy(dict, lt, Tail(seq)))

\* _.sortBy(safeNoteIds, nav_order, label, updated), lines 223-239
sortByCriteria(dict, lt, ids) ==
  LET entries == [i \in 1..Len(ids) |-> [value |-> ids[i], index |-> i]]
      done == SortBy(dict, lt, entries)
  IN [i \in 1..Len(done) |-> done[i].value]

\* out.find(noteId => noteDict[noteId].fname === TAGS_HIERARCHY_BASE), lines
\* 241-243: the index of the first match, 0 for none; reading .fname of an
\* id that noteDict does not hold throws a TypeError.
RECURSIVE findTags(_, _, _)
findTags(dict, out, i) ==
  IF i > Len(out) THEN [threw |-> FALSE, at |-> 0]
  ELSE IF out[i] \notin DOMAIN dict THEN [threw |-> TRUE, at |-> 0]
  ELSE IF dict[out[i]].fname = TAGS_HIERARCHY_BASE
       THEN [threw |-> FALSE, at |-> i]
  ELSE findTags(dict, out, i + 1)

indexOf(seq, x) ==
  IF x \in Range(seq) THEN CHOOSE i \in 1..Len(seq) :
                               seq[i] = x /\ \A j \in 1..(i - 1) : seq[j] # x
  ELSE 0

\* out.splice(idx, 1); out.push(x), lines 248-250
spliceAndPush(out, idx, x) ==
  [i \in 1..Len(out) |->
     IF i < idx THEN out[i] ELSE IF i < Len(out) THEN out[i + 1] ELSE x]

\* lines 240-251
bubbleDownTags(dict, out) ==
  LET found == findTags(dict, out, 1)
  IN IF found.threw \/ found.at = 0 THEN out
     ELSE LET maybeTagsHierarchy == out[found.at]
          IN IF maybeTagsHierarchy # <<>> /\
                dict[maybeTagsHierarchy].nav_order = <<>>
             THEN spliceAndPush(out, indexOf(out, maybeTagsHierarchy),
                                maybeTagsHierarchy)
             ELSE out

\* TreeUtils.sortNotesAtLevel, lines 193-257.  threw: the call ended in an
\* exception and returned nothing; error: <<>> or <<the omitted ids>>.
sortNotesAtLevel(ids, dict, reverse, lt) ==
  LET IsSafe(id) == GetIsDefined(dict, id)
      IsUnsafe(id) == ~GetIsDefined(dict, id)
      unsafeNoteIds == SelectSeq(ids, IsUnsafe)
      safeNoteIds == SelectSeq(ids, IsSafe)
      error == IF Len(unsafeNoteIds) > 0 THEN <<unsafeNoteIds>> ELSE <<>>
      out == sortByCriteria(dict, lt, safeNoteIds)
      bubbled == bubbleDownTags(dict, out)
  IN IF findTags(dict, out, 1).threw
     THEN [threw |-> TRUE, data |-> <<>>, error |-> <<>>]
     ELSE [threw |-> FALSE,
           data |-> IF reverse THEN reverseSeq(bubbled) ELSE bubbled,
           error |-> error]

SortInit ==
  /\ ParentsIdle /\ TreeIdle /\ SidebarIdle /\ MenuIdle
  /\ noteDict \in SortDicts
  /\ noteIds \in InjSeqs(SortKeys \cup {DottedId}, MaxSortLen)
  /\ labelType \in {<<>>, <<"title">>, <<"filename">>}
  /\ sorted = [plain |-> <<>>, reversed |-> <<>>]

\* A call without reverse (or reverse: false).
SortPlain ==
  /\ sorted.plain = <<>>
  /\ sorted' = [sorted EXCEPT
       !.plain = <<sortNotesAtLevel(noteIds, noteDict, FALSE, labelType)>>]
  /\ UNCHANGED <<noteIds, noteDict, labelType, notSort>>

\* A call with reverse: true on the same arguments.
SortReversed ==
  /\ sorted.reversed = <<>>
  /\ sorted' = [sorted EXCEPT
       !.reversed = <<sortNotesAtLevel(noteIds, noteDict, TRUE, labelType)>>]
  /\ UNCHANGED <<noteIds, noteDict, labelType, notSort>>

SortNext == SortPlain \/ SortReversed

SpecSort == SortInit /\ [][SortNext]_vars

\* What the calls made so far returned.
SortResults ==
  (IF sorted.plain = <<>> THEN {} ELSE {sorted.plain[1]}) \cup
  (IF sorted.reversed = <<>> THEN {} ELSE {sorted.reversed[1]})

IsPresent(id) == id \in DOMAIN noteDict
IsAbsent(id) == id \notin DOMAIN noteDict

\* C6: sortNotesAtLevel partitions its input ids: the data returned holds
\* exactly the input ids that are keys of noteDict, and an error is returned
\* if and only if some input id is no key of noteDict, its payload listing
\* exactly those ids in input order, beside the sorted present ids.
C6_SortPartitionsIds ==
  \A r \in SortResults :
    /\ ~r.threw
    /\ Len(r.data) = Len(SelectSeq(noteIds, IsPresent))
    /\ Range(r.data) = Range(SelectSeq(noteIds, IsPresent))
    /\ (r.error # <<>>) <=> (\E i \in 1..Len(noteIds) : IsAbsent(noteIds[i]))
    /\ r.error # <<>> => r.error[1] = SelectSeq(noteIds, IsAbsent)

\* C6 on the ids that do not read as a path into noteDict: the partition
\* holds there.
SortPartitionsPlainIds ==
  DottedId \notin Range(noteIds) => C6_SortPartitionsIds

\* The order the claim C7 states, on two notes of noteDict: nav_order
\* ascending with the notes that have none last, then the label, then the
\* updated timestamp.
LabelFor(id) ==
  IF labelType = <<"filename">>
  THEN toLowerCase(last(split(noteDict[id].fname)))
  ELSE toLowerCase(noteDict[id].title)

InClaimedOrder(x, y) ==
  LET nx == noteDict[x].nav_order
      ny == noteDict[y].nav_order
  IN IF nx # ny
     THEN nx # <<>> /\ (ny = <<>> \/ nx[1] < ny[1])
     ELSE IF LabelFor(x) # LabelFor(y)
          THEN StrLess(LabelFor(x), LabelFor(y))
          ELSE noteDict[x].updated <= noteDict[y].updated

IsBubbledTags(id) ==
  /\ id \in DOMAIN noteDict
  /\ noteDict[id].fname = TAGS_HIERARCHY_BASE
  /\ noteDict[id].nav_order = <<>>

\* Some requested note has the tags-root path name and no nav_order, and
\* such a note is the last element.  (With several of them only one can be
\* last: the claim is read as asking that one of them is.)
TagsLast(data) ==
  (\E i \in 1..Len(noteIds) : IsBubbledTags(noteIds[i])) =>
    data # <<>> /\ IsBubbledTags(data[Len(data)])

\* C7: without reverse the present ids come out by nav_order, then label,
\* then updated; and when a present note has the tags-root path name and no
\* nav_order, such a note is the last element of the result, also when
\* several notes carry that path name.  Stated on requests whose ids are
\* keys of noteDict or plainly absent from it (C6 is about the others).
C7_SortOrderAndTagsLast ==
  (/\ sorted.plain # <<>> /\ ~sorted.plain[1].threw
   /\ DottedId \notin Range(noteIds)) =>
    LET data == sorted.plain[1].data
    IN /\ \A i, j \in 1..Len(data) :
            (/\ i < j
             /\ IsPresent(data[i]) /\ IsPresent(data[j])
             /\ ~IsBubbledTags(data[i]) /\ ~IsBubbledTags(data[j]))
            => InClaimedOrder(data[i], data[j])
       /\ TagsLast(data)

\* C7 where at most one requested note carries the tags-root path name.
TagsNotesRequested ==
  {i \in 1..Len(noteIds) :
     IsPresent(noteIds[i]) /\ noteDict[noteIds[i]].fname = TAGS_HIERARCHY_BASE}

SortOrderWithOneTagsNote ==
  Cardinality(TagsNotesRequested) <= 1 => C7_SortOrderAndTagsLast

\* The reversal law alone: it holds on every input.
ReverseIsExactReverse ==
  (sorted.plain # <<>> /\ sorted.reversed # <<>>) =>
    /\ sorted.plain[1].threw = sorted.reversed[1].threw
    /\ sorted.reversed[1].data = reverseSeq(sorted.plain[1].data)

\* C8: with reverse: true the data is the exact reverse of the data without
\* it, so that a tags-root note without nav_order is last without reverse
\* and first with it.  Stated on the same requests as C7.
C8_ReversalLaw ==
  (/\ sorted.plain # <<>> /\ sorted.reversed # <<>>
   /\ ~sorted.plain[1].threw /\ ~sorted.reversed[1].threw
   /\ DottedId \notin Range(noteIds)) =>
    /\ sorted.reversed[1].data = reverseSeq(sorted.plain[1].data)
    /\ TagsLast(sorted.plain[1].data)
    /\ TagsLast(reverseSeq(sorted.reversed[1].data))

-----------------------------------------------------------------------------
(* createTreeFromEngine, createTreeFromFileNames, validateTreeNodes *)

MaxNames == 2
MaxRootChildren == 2

\* String.prototype.localeCompare in the root collation, on the characters
\* of the model: punctuation before letters, letters in alphabetical order
\* whatever their case; on a tie, a lower-case letter before its upper case.
PrimaryWeight(c) ==
  IF c = "." THEN 1
  ELSE IF c = "*" THEN 2
  ELSE 10 + CharCode[LowerChar(c)]

TertiaryWeight(c) == IF LowerChar(c) = c THEN 0 ELSE 1

RECURSIVE NatSeqCompare(_, _)
NatSeqCompare(a, b) ==
  IF a = <<>> /\ b = <<>> THEN 0
  ELSE IF a = <<>> THEN -1
  ELSE IF b = <<>> THEN 1
  ELSE IF Head(a) < Head(b) THEN -1
  ELSE IF Head(a) > Head(b) THEN 1
  ELSE NatSeqCompare(Tail(a), Tail(b))

localeCompare(a, b) ==
  LET p == NatSeqCompare([i \in 1..Len(a) |-> PrimaryWeight(a[i])],
                         [i \in 1..Len(b) |-> PrimaryWeight(b[i])])
  IN IF p # 0 THEN p
     ELSE NatSeqCompare([i \in 1..Len(a) |-> TertiaryWeight(a[i])],
                        [i \in 1..Len(b) |-> TertiaryWeight(b[i])])

\* Array.prototype.sort((x, y) => x.key.localeCompare(y.key)): stable, so
\* elements that compare equal keep their order.
RECURSIVE InsertLocale(_, _)
InsertLocale(x, seq) ==
  IF seq = <<>> THEN <<x>>
  ELSE IF localeCompare(x.key, Head(seq).key) <= 0 THEN <<x>> \o seq
  ELSE <<Head(seq)>> \o InsertLocale(x, Tail(seq))

RECURSIVE SortLocale(_)
SortLocale(seq) ==
  IF seq = <<>> THEN <<>>
  ELSE InsertLocale(Head(seq), SortLocale(Tail(seq)))

\* children.sort((a, b) => a.localeCompare(b)) on ids, line 275
sortIds(ids) ==
  LET done == SortLocale([i \in 1..Len(ids) |-> [key |-> ids[i], v |-> ids[i]]])
  IN [i \in 1..Len(done) |-> done[i].v]

\* children.sort((a, b) => a.fname.localeCompare(b.fname)), lines 327-328
sortByFname(nodes) ==
  LET done == SortLocale([i \in 1..Len(nodes) |->
                            [key |-> nodes[i].fname, v |-> nodes[i]]])
  IN [i \in 1..Len(done) |-> done[i].v]

TreeNode(fname, children) == [fname |-> fname, children |-> children]
TreeThrew == [threw |-> TRUE, tree |-> TreeNode(<<>>, <<>>)]

\* createTreeFromEngine, lines 266-285.  fuel is the call depth left before
\* the JavaScript stack overflows: a walk deeper than the number of notes is
\* on a cycle of children and ends in a RangeError.
RECURSIVE createTreeFromEngineAt(_, _, _)
createTreeFromEngineAt(ns, id, fuel) ==
  IF fuel = 0 \/ id \notin DOMAIN ns THEN TreeThrew
  ELSE LET note == ns[id]
           NotSelf(child) == child # note.id
           children == sortIds(SelectSeq(note.children, NotSelf))
           sub == [i \in 1..Len(children) |->
                     createTreeFromEngineAt(ns, children[i], fuel - 1)]
           fnames == split(note.fname)
       IN IF \E i \in 1..Len(sub) : sub[i].threw THEN TreeThrew
          ELSE [threw |-> FALSE,
                tree |-> TreeNode(fnames[Len(fnames)],
                                  [i \in 1..Len(sub) |-> sub[i].tree])]

createTreeFromEngine(ns, id) ==
  createTreeFromEngineAt(ns, id, Cardinality(DOMAIN ns) + 1)

\* insertSegments without the find: every segment pushes a new node.
RECURSIVE insertSegmentsAlwaysPush(_, _)
insertSegmentsAlwaysPush(children, segs) ==
  IF segs = <<>> THEN children
  ELSE Append(children,
              TreeNode(Head(segs), insertSegmentsAlwaysPush(<<>>, Tail(segs))))

\* The reduce of lines 294-305 over the segments of one name: find the child
\* named by the first segment, push it when there is none, and go on in it.
RECURSIVE insertSegments(_, _)
insertSegments(children, segs) ==
  IF segs = <<>> THEN children
  ELSE LET at == {i \in 1..Len(children) : children[i].fname = Head(segs)}
       IN IF at = {}
          THEN Append(children,
                      TreeNode(Head(segs), insertSegments(<<>>, Tail(segs))))
          ELSE LET idx == CHOOSE i \in at : \A j \in at : i <= j
               IN [children EXCEPT
                     ![idx] = TreeNode(@.fname,
                                       insertSegments(@.children, Tail(segs)))]

\* fNames.forEach(...), lines 292-307
RECURSIVE insertNames(_, _, _)
insertNames(result, names, root) ==
  IF names = <<>> THEN result
  ELSE insertNames(IF Head(names) # root
                   THEN insertSegments(result, split(Head(names)))
                   ELSE result,
                   Tail(names), root)

\* createTreeFromFileNames, lines 290-309
createTreeFromFileNames(names, root) ==
  TreeNode(root, insertNames(<<>>, names, root))

\* What a call of validateTreeNodes leaves: the response (<<>> for
\* { data: undefined }, or the kind of error returned) and the two trees as
\* the sorts in place of lines 327-328 left them.
Validated(resp, expectedTree, actualTree) ==
  [resp |-> resp, expectedTree |-> expectedTree, actualTree |-> actualTree]

RECURSIVE validateTreeNodes(_, _)
RECURSIVE validateChildren(_, _, _)
RECURSIVE afterChild(_, _, _, _)

\* Lines 344-350 after the call on the children at idx, which sorted
\* children of theirs in place: the first error ends the loop.
afterChild(expectedTree, actualTree, idx, sub) ==
  IF sub.resp # <<>>
  THEN Validated(<<"Mismatch at children">>,
                 [expectedTree EXCEPT !.children[idx] = sub.expectedTree],
                 [actualTree EXCEPT !.children[idx] = sub.actualTree])
  ELSE validateChildren(
         [expectedTree EXCEPT !.children[idx] = sub.expectedTree],
         [actualTree EXCEPT !.children[idx] = sub.actualTree], idx + 1)

\* The loop of lines 342-352 from idx on.
validateChildren(expectedTree, actualTree, idx) ==
  IF idx > Len(expectedTree.children)
  THEN Validated(<<>>, expectedTree, actualTree)
  ELSE afterChild(expectedTree, actualTree, idx,
                  validateTreeNodes(expectedTree.children[idx],
                                    actualTree.children[idx]))

\* Lines 330-352, on the trees with their children sorted.
afterSort(expectedTree, actualTree) ==
  IF Len(expectedTree.children) # Len(actualTree.children)
  THEN Validated(<<"Mismatch at children">>, expectedTree, actualTree)
  ELSE validateChildren(expectedTree, actualTree, 1)

\* validateTreeNodes, lines 315-353.  The children of the two trees are
\* sorted in place before they are compared (lines 327-328), and so are
\* those of the children the recursion reaches.
validateTreeNodes(expectedTree, actualTree) ==
  IF expectedTree.fname # actualTree.fname
  THEN Validated(<<"Fname differs">>, expectedTree, actualTree)
  ELSE afterSort(
         TreeNode(expectedTree.fname, sortByFname(expectedTree.children)),
         TreeNode(actualTree.fname, sortByFname(actualTree.children)))

\* The note graphs.  The root note is IdPool[1]; DanglingId is an id that no
\* note has.  The other notes have at most one child, the last of them none
\* but the dangling one.
TreeIds == {IdPool[i] : i \in 1..3}
DanglingId == IdPool[4]
ChildIds == TreeIds \cup {DanglingId}
TreeNote(id, fname, children) ==
  [id |-> id, fname |-> fname, children |-> children]

NamePool ==
  {<<"b">>, <<"c">>, <<"b", ".", "c">>, <<"a", ".", "b">>, <<"a", ".", "c">>}

TreeGraphs ==
  LET RootFnames == {<<"a">>, S_root}
      InnerFnames == {<<"a", ".", "b">>, <<"a", ".", "c">>, <<"b">>}
  IN
  {g \in [TreeIds -> UNION {
            {TreeNote(id, f, c) : f \in RootFnames \cup InnerFnames,
                                  c \in InjSeqs(ChildIds, MaxRootChildren)} :
            id \in TreeIds}] :
     \A id \in TreeIds :
       /\ g[id].id = id
       /\ IF id = IdPool[1] THEN g[id].fname \in RootFnames
          ELSE g[id].fname \in InnerFnames /\ Len(g[id].children) <= 1
       /\ id = IdPool[3] => g[id].children \in {<<>>, <<DanglingId>>}}

TreeInit ==
  /\ ParentsIdle /\ SortIdle /\ SidebarIdle /\ MenuIdle
  /\ allNotes \in TreeGraphs
  /\ rootNoteId = IdPool[1]
  /\ fNames \in InjSeqs(NamePool, MaxNames)
  /\ rootNote = allNotes[rootNoteId].fname
  /\ engineTree = <<>>
  /\ fileTree = <<>>
  /\ validation = <<>>

CreateTreeFromEngine ==
  /\ engineTree = <<>>
  /\ engineTree' = <<createTreeFromEngine(allNotes, rootNoteId)>>
  /\ UNCHANGED <<allNotes, rootNoteId, fNames, rootNote, fileTree, validation,
                 notTree>>

CreateTreeFromFileNames ==
  /\ fileTree = <<>>
  /\ fileTree' = <<createTreeFromFileNames(fNames, rootNote)>>
  /\ UNCHANGED <<allNotes, rootNoteId, fNames, rootNote, engineTree,
                 validation, notTree>>

\* The trees validateTreeNodes was called with, after the call.
validated(r) ==
  /\ validation' = <<r.resp>>
  /\ fileTree' = <<r.expectedTree>>
  /\ engineTree' = <<[threw |-> FALSE, tree |-> r.actualTree]>>

\* validateTreeNodes(expectedTree from the names, actualTree from the
\* engine); the call sorts the children of the two trees in place.
ValidateTreeNodes ==
  /\ validation = <<>>
  /\ fileTree # <<>>
  /\ engineTree # <<>> /\ ~engineTree[1].threw
  /\ validated(validateTreeNodes(fileTree[1], engineTree[1].tree))
  /\ UNCHANGED <<allNotes, rootNoteId, fNames, rootNote, notTree>>

TreeNext == CreateTreeFromEngine \/ CreateTreeFromFileNames \/ ValidateTreeNodes

SpecTree == TreeInit /\ [][TreeNext]_vars

\* The hierarchy below the root note, as the children pointers give it.
KidsOf(id) ==
  IF id \in DOMAIN allNotes THEN Range(allNotes[id].children) \ {id} ELSE {}

RECURSIVE ReachableFrom(_, _)
ReachableFrom(S, n) ==
  IF n = 0 THEN S
  ELSE ReachableFrom(S \cup UNION {KidsOf(x) : x \in S}, n - 1)

DescendantsOf(id) == ReachableFrom(KidsOf(id), Cardinality(ChildIds))
SegmentOf(id) == last(split(allNotes[id].fname))

\* No dangling child pointer, no cycle of children, and no two children of
\* one note with the same last path segment, from the root note down.
IsHierarchy ==
  LET below == {rootNoteId} \cup DescendantsOf(rootNoteId)
  IN /\ below \subseteq DOMAIN allNotes
     /\ \A x \in below : x \notin DescendantsOf(x)
     /\ \A x \in below : \A c, d \in KidsOf(x) :
          c # d => SegmentOf(c) # SegmentOf(d)

Join(segs) ==
  IF segs = <<>> THEN <<>>
  ELSE LET RECURSIVE J(_)
           J(i) == IF i = Len(segs) THEN segs[i]
                   ELSE segs[i] \o <<".">> \o J(i + 1)
       IN J(1)

\* The dotted paths of the descendants of id relative to it: the segments
\* of the notes on the way down, joined by dots.
RECURSIVE RelativePaths(_, _, _)
RelativePaths(id, prefix, fuel) ==
  IF fuel = 0 THEN {}
  ELSE UNION {{Join(Append(prefix, SegmentOf(c)))} \cup
              RelativePaths(c, Append(prefix, SegmentOf(c)), fuel - 1) :
              c \in KidsOf(id)}

NamesAreRelativePaths ==
  /\ IsHierarchy
  /\ Len(split(rootNote)) = 1
  /\ rootNote \notin Range(fNames)
  /\ Range(fNames) =
       RelativePaths(rootNoteId, <<>>, Cardinality(DOMAIN allNotes))

\* Every descendant's path is its parent's path, a dot and a segment, and
\* the names are the descendants' paths: the graph and the names of the
\* claim's example (a, a.b, a.c).
NamesAreFullPaths ==
  /\ IsHierarchy
  /\ \A x \in {rootNoteId} \cup DescendantsOf(rootNoteId) : \A c \in KidsOf(x) :
       allNotes[c].fname = allNotes[x].fname \o <<".">> \o SegmentOf(c)
  /\ Range(fNames) = {allNotes[d].fname : d \in DescendantsOf(rootNoteId)}

\* C2 as stated: for a root note named r and dotted names that are the
\* paths of r's descendants (a.b and a.c below a), the tree built from the
\* names and the tree built from the graph are accepted by
\* validateTreeNodes.
C2_RoundTripFullPaths ==
  (validation # <<>> /\ NamesAreFullPaths) => validation[1] = <<>>

\* C2 amended: for a root note with a single-segment name r and names that
\* are the descendants' dotted paths relative to the root (b and c below a;
\* none of them r itself), validateTreeNodes accepts the two trees.
C2_RoundTripRelativePaths ==
  (validation # <<>> /\ NamesAreRelativePaths) => validation[1] = <<>>

\* The two trees were built for a root with descendants on two levels,
\* from names that are their relative paths, and were compared.
C2_Witness ==
  /\ validation # <<>> /\ NamesAreRelativePaths
  /\ Len(fNames) = 2
  /\ \E c \in KidsOf(rootNoteId) : KidsOf(c) # {}

-----------------------------------------------------------------------------
(* getSidebars *)

\* notes is the note collection in the order Object.values gives it: a
\* sequence of notes with distinct ids.  A note: id, fname, title, children,
\* vault (name is <<>> when not set), and the publish front matter
\* nav_order (<<>> when not set) and sort_order.
HasNote(ns, id) == \E i \in 1..Len(ns) : ns[i].id = id
NoteOf(ns, id) == ns[CHOOSE i \in 1..Len(ns) : ns[i].id = id]

\* A sidebar item, of the configuration or resolved.  id is the id of a note
\* or autogenerated item and the link id of a category; label is <<>> when
\* the item has none; hints is <<>> or <<the positional props>> that
\* generateSidebar spreads into the item.
Item(type, id, label, items, hints) ==
  [type |-> type, id |-> id, label |-> label, items |-> items, hints |-> hints]
NoteItem(id, label) == Item("note", id, label, <<>>, <<>>)
CategoryItem(linkId, label, items) == Item("category", linkId, label, items, <<>>)
AutogeneratedItem(id) == Item("autogenerated", id, <<>>, <<>>, <<>>)

\* What a call returned or threw.  kind: "" (returned; of a Result, ok),
\* "Err" (an err Result was returned), and of what was thrown "DendronError",
\* "TypeError" (a property of undefined was read), "RangeError" (the stack
\* overflowed).
\* The error of a result is what was thrown: its name, and the status and
\* the reference of a DendronError ("" and <<>> for another Error).
ErrorOf(name, status, ref) == [name |-> name, status |-> status, ref |-> ref]
Returned(v) == [kind |-> "", error |-> ErrorOf("", "", <<>>), value |-> v]
Threw(kind, status, ref) ==
  [kind |-> kind, error |-> ErrorOf(kind, status, ref), value |-> <<>>]
DoesNotExist(sidebarId) == Threw("DendronError", "DOES_NOT_EXIST", sidebarId)
Err(error) == [kind |-> "Err", error |-> error, value |-> <<>>]

\* [...new Set(payload)], line 744
RECURSIVE dedupe(_)
dedupe(seq) ==
  IF seq = <<>> THEN <<>>
  ELSE LET front == dedupe(SubSeq(seq, 1, Len(seq) - 1))
       IN IF seq[Len(seq)] \in Range(front) THEN front
          ELSE Append(front, seq[Len(seq)])

\* getPriorityVaults that knows no priority.
noPriorityVaults(dnb) == <<>>

\* getPriorityVaults, lines 740-751.  duplicateNoteBehavior is
\* [kind |-> "none"] when not given, else its payload: a list of vault
\* names (kind "list") or a vault (kind "vault", name <<>> when not set).
\* <<>> stands for undefined, <<list>> for a list.
getPriorityVaults(dnb) ==
  IF dnb.kind = "list" THEN <<dedupe(dnb.list)>>
  ELSE IF dnb.kind = "vault" /\ dnb.name # <<>> /\ dnb.name[1] # ""
       THEN <<<<dnb.name[1]>>>>
       ELSE <<>>

\* note.vault.name ?? note.vault.fsPath, line 628
vaultKeyOf(note) ==
  IF note.vault.name # <<>> THEN note.vault.name[1] ELSE note.vault.fsPath

\* resolveItemId, lines 610-647
resolveItemId(ns, dnb, sidebarId) ==
  LET SameFname(n) == n.fname = sidebarId
      possibleNotes == IF HasNote(ns, sidebarId) THEN <<NoteOf(ns, sidebarId)>>
                       ELSE SelectSeq(ns, SameFname)
      hasDuplicates == Len(possibleNotes) > 1
      \* new Map(...): a later note of the same vault replaces an earlier one
      mapHas(v) == \E i \in 1..Len(possibleNotes) : vaultKeyOf(possibleNotes[i]) = v
      mapGet(v) == possibleNotes[CHOOSE i \in 1..Len(possibleNotes) :
                      /\ vaultKeyOf(possibleNotes[i]) = v
                      /\ \A j \in (i + 1)..Len(possibleNotes) :
                           vaultKeyOf(possibleNotes[j]) # v]
      priority == getPriorityVaults(dnb)
      preferred == IF hasDuplicates /\ priority # <<>>
                   THEN SelectSeq(priority[1], mapHas)
                   ELSE <<>>
      note == IF preferred # <<>> THEN <<mapGet(preferred[1])>>
              ELSE IF possibleNotes # <<>> THEN <<possibleNotes[1]>>
              ELSE <<>>
  IN IF note = <<>> THEN DoesNotExist(sidebarId)
     ELSE Returned(note[1].id)

\* findHierarchySources, lines 493-523
findHierarchySources(ns, item) ==
  IF item.id = ROOT_KEYWORD
  THEN LET IsTop(n) == n.fname # S_root /\ Len(split(n.fname)) = 1
           top == SelectSeq(ns, IsTop)
       IN Returned([i \in 1..Len(top) |-> top[i].id])
  ELSE IF ~HasNote(ns, item.id) THEN DoesNotExist(item.id)
  ELSE Returned(NoteOf(ns, item.id).children)

\* PublishUtils.getPublishFM(note): the publish front matter of the note.
getPublishFM(note) ==
  [nav_order |-> note.nav_order, sort_order |-> note.sort_order]

\* generateSidebar, lines 525-571.  `const { children } = note` (line 532)
\* is read before the `if (!note)` of line 537: an id without note throws a
\* TypeError.  fuel is the depth left before the stack overflows, which a
\* cycle of children makes it do.
RECURSIVE generateSidebar(_, _, _)
generateSidebar(ns, ids, fuel) ==
  IF ids = <<>> THEN Returned(<<>>)
  ELSE IF fuel = 0 THEN Threw("RangeError", "", <<>>)
  ELSE IF ~HasNote(ns, Head(ids)) THEN Threw("TypeError", "", <<>>)
  ELSE LET note == NoteOf(ns, Head(ids))
           fm == getPublishFM(note)
           positionalProps == [position |-> fm.nav_order, fname |-> note.fname,
                               reverse |-> fm.sort_order = "reverse"]
           inner == generateSidebar(ns, note.children, fuel - 1)
           rest == generateSidebar(ns, Tail(ids), fuel)
       IN IF note.children = <<>>
          THEN IF rest.kind # "" THEN rest
               ELSE Returned(<<Item("note", note.id, <<note.title>>, <<>>,
                                    <<positionalProps>>)>> \o rest.value)
          ELSE IF inner.kind # "" THEN inner
          ELSE IF rest.kind # "" THEN rest
          ELSE Returned(<<Item("category", note.id, <<note.title>>,
                               inner.value, <<positionalProps>>)>>
                        \o rest.value)

\* _.sortBy(items, ["position", "fname"]), lines 584-587: by position with
\* the undefined ones last, then by fname; stable.
compareItems(a, b) ==
  LET pa == IF a.v.hints = <<>> THEN <<>> ELSE a.v.hints[1].position
      pb == IF b.v.hints = <<>> THEN <<>> ELSE b.v.hints[1].position
      fa == IF a.v.hints = <<>> THEN <<>> ELSE <<a.v.hints[1].fname>>
      fb == IF b.v.hints = <<>> THEN <<>> ELSE <<b.v.hints[1].fname>>
      c1 == compareAscendingNum(pa, pb)
      c2 == compareAscendingStr(fa, fb)
  IN IF c1 # 0 THEN c1 ELSE IF c2 # 0 THEN c2 ELSE a.index - b.index

RECURSIVE InsertItem(_, _)
InsertItem(x, seq) ==
  IF seq = <<>> THEN <<x>>
  ELSE IF compareItems(x, Head(seq)) < 0 THEN <<x>> \o seq
  ELSE <<Head(seq)>> \o InsertItem(x, Tail(seq))

RECURSIVE SortItemEntries(_)
SortItemEntries(seq) ==
  IF seq = <<>> THEN <<>> ELSE InsertItem(Head(seq), SortItemEntries(Tail(seq)))

\* sortItems without the final map: the positional props stay.
keepPositionalProps(item) == item

\* ({ position, fname, reverse, ...item }) => item, lines 588-590
stripPositionalProps(item) == [item EXCEPT !.hints = <<>>]

\* sortItems, lines 573-591
RECURSIVE sortItems(_)
sortItems(sidebarItems) ==
  LET processed ==
        [i \in 1..Len(sidebarItems) |->
           LET item == sidebarItems[i]
           IN IF item.type = "category"
              THEN LET sortedItems == sortItems(item.items)
                   IN [item EXCEPT !.items =
                         IF item.hints # <<>> /\ item.hints[1].reverse
                         THEN reverseSeq(sortedItems) ELSE sortedItems]
              ELSE item]
      sortedSidebarItems ==
        SortItemEntries([i \in 1..Len(processed) |->
                           [v |-> processed[i], index |-> i]])
  IN [i \in 1..Len(sortedSidebarItems) |->
        stripPositionalProps(sortedSidebarItems[i].v)]

\* defaultSidebarItemsGenerator, lines 489-596
flow(ns, hierarchySource) ==
  IF hierarchySource.kind # "" THEN hierarchySource
  ELSE LET generated == generateSidebar(ns, hierarchySource.value, Len(ns) + 1)
       IN IF generated.kind # "" THEN generated
          ELSE Returned(sortItems(generated.value))
defaultSidebarItemsGenerator(ns, item) ==
  flow(ns, findHierarchySources(ns, item))

\* resolveItem, lines 609-673: the item with its id (a category's link id)
\* resolved; the root keyword is kept.
withId(item, id) ==
  IF id.kind # "" THEN id ELSE Returned([item EXCEPT !.id = id.value])
resolveItem(ns, dnb, item) ==
  IF item.type = "autogenerated" /\ item.id = ROOT_KEYWORD THEN Returned(item)
  ELSE withId(item, resolveItemId(ns, dnb, item.id))

\* The first of two calls that threw, or both values in one list.
both(first, rest) ==
  IF first.kind # "" THEN first
  ELSE IF rest.kind # "" THEN rest
  ELSE Returned(first.value \o rest.value)

\* processItem, lines 675-695: processResolved is its switch on the
\* resolved item (item is what resolveItem returned or threw), withItems
\* the category with its processed items, processItems
\* item.items.map(processItem).flat().
withItems(item, sub) ==
  IF sub.kind # "" THEN sub ELSE Returned(<<[item EXCEPT !.items = sub.value]>>)

RECURSIVE processItem(_, _, _)
RECURSIVE processItems(_, _, _)
RECURSIVE processResolved(_, _, _)
processResolved(ns, dnb, item) ==
  IF item.kind # "" THEN item
  ELSE IF item.value.type = "category"
  THEN withItems(item.value, processItems(ns, dnb, item.value.items))
  ELSE IF item.value.type = "autogenerated"
  THEN defaultSidebarItemsGenerator(ns, item.value)
  ELSE Returned(<<item.value>>)

processItem(ns, dnb, configItem) ==
  processResolved(ns, dnb, resolveItem(ns, dnb, configItem))

processItems(ns, dnb, items) ==
  IF items = <<>> THEN Returned(<<>>)
  ELSE both(processItem(ns, dnb, Head(items)),
            processItems(ns, dnb, Tail(items)))

\* DendronError.isDendronError(error) of error.ts: error?.message !==
\* undefined.  Whatever the calls of processItem throw is an Error with a
\* message: a DendronError, a TypeError or a RangeError.
isDendronError(r) == r.kind \in {"DendronError", "TypeError", "RangeError"}

\* fromThrowable(processItem, ...), lines 697-704: of what processItem
\* throws an err Result, of what isDendronError accepts as it is and of
\* anything else an INVALID_CONFIG error.
fromThrowable(r) ==
  IF r.kind = "" THEN r
  ELSE IF isDendronError(r) THEN Err(r.error)
  ELSE Err(ErrorOf("DendronError", "INVALID_CONFIG", <<>>))

safeProcessItem(ns, dnb, item) == fromThrowable(processItem(ns, dnb, item))

\* Result.combine(results): the first error, or all the values.
RECURSIVE combine(_)
combine(results) ==
  IF results = <<>> THEN Returned(<<>>)
  ELSE both(IF Head(results).kind # "" THEN Head(results)
            ELSE Returned(<<Head(results).value>>),
            combine(Tail(results)))

\* x.flat()
RECURSIVE flat(_)
flat(seqs) == IF seqs = <<>> THEN <<>> ELSE Head(seqs) \o flat(Tail(seqs))

\* processSiderbar, lines 598-707
mapFlat(r) == IF r.kind # "" THEN r ELSE Returned(flat(r.value))
processSiderbar(ns, dnb, sidebar) ==
  mapFlat(combine([i \in 1..Len(sidebar) |->
                     safeProcessItem(ns, dnb, sidebar[i])]))

\* processSidebars, lines 709-728, on the parsed configuration: a sequence
\* of [key, sidebar] in the order of Object.entries.
entryOf(key, sidebarResult) ==
  IF sidebarResult.kind = ""
  THEN Returned([key |-> key, sidebar |-> sidebarResult.value])
  ELSE sidebarResult
processSidebars(ns, dnb, config) ==
  combine([i \in 1..Len(config) |->
             entryOf(config[i].key,
                     processSiderbar(ns, dnb, config[i].sidebar))])

\* getSidebars, lines 730-735
getSidebars(config, ns, dnb) == processSidebars(ns, dnb, config)

\* The inputs of getSidebars.  Three families: duplicate fnames over vaults
\* with every duplicateNoteBehavior, resolved through one note item
\* (ResolveNotes, Behaviors); a small graph under every configuration of
\* the bounds (ConfigNotes, Configs); every graph of the bounds expanded by
\* an autogenerated item (GraphNotes, GraphConfigs).
MaxSidebarItems == 2
MaxChildren == 2
MaxPriorityVaults == 2

S_x == <<"x">>
MissingRefs == {<<"z", "z">>, <<"y", "y">>}
SidebarNote(id, fname, children, vault, nav, sortOrder) ==
  [id |-> id, fname |-> fname, title |-> <<"T">> \o id, children |-> children,
   vault |-> vault, nav_order |-> nav, sort_order |-> sortOrder]
Vault(name, fsPath) == [name |-> name, fsPath |-> fsPath]
Vaults == {Vault(<<"v1">>, "p1"), Vault(<<"v2">>, "p2"), Vault(<<>>, "p3")}
Behavior(kind, list, name) == [kind |-> kind, list |-> list, name |-> name]
NoBehavior == Behavior("none", <<>>, <<>>)
SeqsUpTo(S, n) == UNION {[1..k -> S] : k \in 0..n}
\* The configuration of the sidebars s1, s2 with the given lists of items.
SidebarsOf(lists) ==
  [k \in 1..Len(lists) |-> [key |-> <<"s1", "s2">>[k], sidebar |-> lists[k]]]

\* A note is in one vault and an fname is taken once in a vault.
ResolveNotes ==
  {[i \in 1..3 |-> SidebarNote(IdPool[i], fn[i], <<>>, vl[i], <<>>, "normal")] :
     <<fn, vl>> \in {p \in [1..3 -> {S_x, IdPool[2]}] \X [1..3 -> Vaults] :
                       \A i, j \in 1..3 :
                         (i # j /\ p[1][i] = p[1][j]) => p[2][i] # p[2][j]}}
Behaviors ==
  {NoBehavior}
  \cup {Behavior("list", l, <<>>) :
          l \in SeqsUpTo({"v1", "v2", "p3", "p1"}, MaxPriorityVaults)}
  \cup {Behavior("vault", <<>>, n) : n \in {<<>>, <<"v1">>, <<"v2">>, <<"v4">>}}

HomeVault == Vault(<<"v1">>, "p1")
ConfigNotes ==
  {<<SidebarNote(IdPool[1], IdPool[1], ch, HomeVault, <<>>, "normal"),
     SidebarNote(IdPool[2], IdPool[1] \o <<".">> \o IdPool[2], <<>>, HomeVault,
                 <<>>, "normal"),
     SidebarNote(IdPool[3], S_x, <<>>, HomeVault, <<>>, "normal")>> :
     ch \in {<<>>, <<IdPool[2]>>, <<IdPool[2], DanglingId>>}}
LeafItems ==
  {NoteItem(ref, <<<<"L">>>>) : ref \in {IdPool[1], S_x} \cup MissingRefs}
  \cup {AutogeneratedItem(ref) : ref \in {ROOT_KEYWORD, IdPool[1]} \cup MissingRefs}
Categories(links, items) ==
  {CategoryItem(l, <<<<"G">>>>, q) : l \in links, q \in SeqsUpTo(items, 1)}
ConfigItems ==
  LeafItems
  \cup Categories({IdPool[3]} \cup MissingRefs, LeafItems)
  \cup Categories({IdPool[2], <<"y", "y">>},
                  Categories({IdPool[3], <<"z", "z">>},
                             {NoteItem(ref, <<<<"L">>>>) :
                                ref \in {IdPool[1], <<"y", "y">>}}))
Configs ==
  {SidebarsOf(<<q>>) : q \in SeqsUpTo(ConfigItems, MaxSidebarItems)}
  \cup {SidebarsOf(<<q1, q2>>) : q1, q2 \in SeqsUpTo(ConfigItems, 1)}
  \cup {<<>>}

GraphNotes ==
  LET InjSeqsUpTo(S, n) == UNION {InjSeqs(S, k) : k \in 0..n}
      SortOrders == {"normal", "reverse"}
  IN
  {<<SidebarNote(IdPool[1], IdPool[1], ch1, HomeVault, <<>>, so1),
     SidebarNote(IdPool[2], fn2, ch2, HomeVault, nav2, so2),
     SidebarNote(IdPool[3], fn3, <<>>, HomeVault, nav3, "normal"),
     SidebarNote(IdPool[5], fn5, <<>>, HomeVault, nav5, "normal")>> :
     ch1 \in InjSeqsUpTo({IdPool[2], IdPool[3], DanglingId}, MaxChildren),
     so1 \in SortOrders,
     fn2 \in {IdPool[1] \o <<".">> \o IdPool[2], IdPool[2]},
     ch2 \in InjSeqsUpTo({IdPool[3], IdPool[5], DanglingId}, MaxChildren)
             \cup {<<IdPool[2]>>},
     nav2 \in {<<>>, <<1>>}, so2 \in SortOrders,
     fn3 \in {IdPool[1] \o <<".">> \o IdPool[3], IdPool[3]},
     nav3 \in {<<>>, <<1>>, <<2>>},
     fn5 \in {IdPool[1] \o <<".">> \o IdPool[5], S_root},
     nav5 \in {<<>>, <<2>>}}
GraphConfigs ==
  {SidebarsOf(<<<<AutogeneratedItem(ref)>>>>) : ref \in {ROOT_KEYWORD, IdPool[1]}}
  \cup {SidebarsOf(<<<<CategoryItem(IdPool[1], <<<<"G">>>>,
                                    <<AutogeneratedItem(IdPool[2])>>)>>>>)}

SidebarInit ==
  /\ ParentsIdle /\ SortIdle /\ TreeIdle /\ MenuIdle
  /\ \/ /\ notes \in ResolveNotes
        /\ duplicateNoteBehavior \in Behaviors
        /\ input \in {SidebarsOf(<<<<NoteItem(ref, <<<<"L">>>>)>>>>) :
                         ref \in {S_x, IdPool[2]} \cup MissingRefs}
     \/ /\ notes \in ConfigNotes
        /\ duplicateNoteBehavior = NoBehavior
        /\ input \in Configs
     \/ /\ notes \in GraphNotes
        /\ duplicateNoteBehavior = NoBehavior
        /\ input \in GraphConfigs
  /\ sidebarsResult = <<>>

GetSidebars ==
  /\ sidebarsResult = <<>>
  /\ sidebarsResult' = <<getSidebars(input, notes, duplicateNoteBehavior)>>
  /\ UNCHANGED <<notes, duplicateNoteBehavior, input>>
  /\ UNCHANGED notSidebar

SpecSidebars == SidebarInit /\ [][GetSidebars]_vars

-----------------------------------------------------------------------------
(* Claims on getSidebars *)

SidebarsDone == sidebarsResult # <<>>
SidebarsOk == SidebarsDone /\ sidebarsResult[1].kind = ""

\* The items of a list of items, at every depth.
RECURSIVE ItemsIn(_)
ItemsIn(items) ==
  UNION {{items[i]} \cup ItemsIn(items[i].items) : i \in 1..Len(items)}
ResolvedItems == UNION {ItemsIn(sidebarsResult[1].value[k].sidebar) :
                          k \in 1..Len(sidebarsResult[1].value)}
ConfigItemsOf(config) == UNION {ItemsIn(config[k].sidebar) : k \in 1..Len(config)}

\* C3: whenever getSidebars returns a successful result, every item at
\* every depth of every sidebar is a note or a category, its id (a
\* category's link id) is the id of a note of the collection, and it carries
\* no positional hint (position, fname, reverse).
C3_ResolvedItemsAreClean ==
  SidebarsOk =>
    \A item \in ResolvedItems :
      /\ item.type \in {"note", "category"}
      /\ HasNote(notes, item.id)
      /\ item.hints = <<>>

\* A successful resolution of a configuration with an autogenerated item,
\* whose result has an item below a category for a note with a nav_order.
C3_Witness ==
  /\ SidebarsOk
  /\ \E c \in ConfigItemsOf(input) : c.type = "autogenerated"
  /\ \E item \in ResolvedItems :
       /\ item.type = "category"
       /\ \E i \in 1..Len(item.items) :
            NoteOf(notes, item.items[i].id).nav_order # <<>>

\* A reference that matches no note by id and no note by fname.
Unmatched(ref) ==
  /\ ~HasNote(notes, ref)
  /\ \A i \in 1..Len(notes) : notes[i].fname # ref

\* The first unmatched reference of a list of items in item order, a
\* category's link before its items: <<>> or <<the reference>>.
RECURSIVE FirstUnmatched(_)
FirstUnmatched(items) ==
  IF items = <<>> THEN <<>>
  ELSE LET item == Head(items)
           own == IF item.type = "autogenerated" /\ item.id = ROOT_KEYWORD
                  THEN <<>>
                  ELSE IF Unmatched(item.id) THEN <<item.id>>
                  ELSE FirstUnmatched(item.items)
       IN IF own # <<>> THEN own ELSE FirstUnmatched(Tail(items))
FirstUnmatchedOf(config) == FirstUnmatched(flat([k \in 1..Len(config) |-> config[k].sidebar]))

\* C4: when an item of a sidebar, at any depth, has a reference that matches
\* no note, getSidebars returns (it does not throw) an error and no value,
\* and the error is DOES_NOT_EXIST naming the first such reference in
\* sidebar and item order.
C4_FailFastFirstMissing ==
  SidebarsDone =>
    /\ sidebarsResult[1].kind \in {"", "Err"}
    /\ FirstUnmatchedOf(input) # <<>> =>
         /\ sidebarsResult[1].kind = "Err"
         /\ sidebarsResult[1].value = <<>>
         /\ sidebarsResult[1].error =
              ErrorOf("DendronError", "DOES_NOT_EXIST",
                      FirstUnmatchedOf(input)[1])

\* Every child id of every note is the id of a note.
ChildrenExist ==
  \A i \in 1..Len(notes) : \A j \in 1..Len(notes[i].children) :
    HasNote(notes, notes[i].children[j])

\* The statement of C4 on the collections where every child id is the id
\* of a note.
FailFastWhenChildrenExist == ChildrenExist => C4_FailFastFirstMissing

\* The name a vault goes by: its name, or its path when it has none.
VaultName(vault) == IF vault.name # <<>> THEN vault.name[1] ELSE vault.fsPath

\* The candidates of a reference: the note keyed by it, else the notes with
\* that fname, in the order of the collection.
Candidates(ref) ==
  LET Keyed(n) == n.id = ref
      Named(n) == n.fname = ref
  IN IF \E i \in 1..Len(notes) : notes[i].id = ref
     THEN SelectSeq(notes, Keyed) ELSE SelectSeq(notes, Named)

\* The candidate C5 says is chosen, of one or more candidates.
ChosenCandidate(cands, dnb) ==
  LET Holds(v) == \E i \in 1..Len(cands) : VaultName(cands[i].vault) = v
      In(v) == cands[CHOOSE i \in 1..Len(cands) : VaultName(cands[i].vault) = v]
      listed == {k \in 1..Len(dnb.list) : Holds(dnb.list[k])}
      earliest == CHOOSE k \in listed : \A m \in listed : k <= m
  IN IF Len(cands) > 1 /\ dnb.kind = "list" /\ listed # {}
     THEN In(dnb.list[earliest])
     ELSE IF Len(cands) > 1 /\ dnb.kind = "vault" /\ dnb.name # <<>>
             /\ Holds(dnb.name[1])
     THEN In(dnb.name[1])
     ELSE cands[1]

\* The configuration is one sidebar of one note item.
OneNoteItem ==
  /\ Len(input) = 1 /\ Len(input[1].sidebar) = 1
  /\ input[1].sidebar[1].type = "note"

\* C5: the reference of a note item resolves to the note keyed by it; else,
\* of the notes with that fname, to the one in the earliest-listed vault
\* that holds one (payload a list), to the one in the named vault (payload a
\* vault), and in every other case to the first one.
C5_DuplicateResolution ==
  (SidebarsDone /\ OneNoteItem
     /\ Candidates(input[1].sidebar[1].id) # <<>>) =>
    /\ sidebarsResult[1].kind = ""
    /\ sidebarsResult[1].value[1].sidebar[1].id =
         ChosenCandidate(Candidates(input[1].sidebar[1].id),
                         duplicateNoteBehavior).id

\* Several candidates, a list of two vaults of which only the second holds
\* one, and the note chosen is not the first candidate.
C5_Witness ==
  /\ SidebarsOk /\ OneNoteItem
  /\ Len(Candidates(input[1].sidebar[1].id)) > 1
  /\ duplicateNoteBehavior.kind = "list"
  /\ Len(duplicateNoteBehavior.list) = 2
  /\ \A i \in 1..Len(notes) :
       VaultName(notes[i].vault) # duplicateNoteBehavior.list[1]
  /\ sidebarsResult[1].value[1].sidebar[1].id
       # Candidates(input[1].sidebar[1].id)[1].id

\* The configuration is one sidebar of one autogenerated item for the root
\* keyword.
RootAutogeneration ==
  /\ Len(input) = 1
  /\ input[1].sidebar = <<AutogeneratedItem(ROOT_KEYWORD)>>

\* The ids of the notes whose fname has one segment and is not "root".
TopLevelIds ==
  LET IsTop(n) == n.fname # S_root /\ \A k \in 1..Len(n.fname) : n.fname[k] # "."
      top == SelectSeq(notes, IsTop)
  IN [i \in 1..Len(top) |-> top[i].id]

\* No note is below itself through children.
ChildIdsOf(id) == IF HasNote(notes, id) THEN Range(NoteOf(notes, id).children) ELSE {}
RECURSIVE Below(_, _)
Below(ids, k) ==
  IF k = 0 THEN ids ELSE Below(ids \cup UNION {ChildIdsOf(x) : x \in ids}, k - 1)
NoChildCycle ==
  \A i \in 1..Len(notes) :
    notes[i].id \notin Below(ChildIdsOf(notes[i].id), Len(notes))

\* items are the items of the notes among ids, one each: a note item for a
\* note without children, a category linked to the note for a note with
\* children, its items those of the children.
RECURSIVE Emits(_, _)
Emits(items, ids) ==
  LET Present(id) == HasNote(notes, id)
      present == SelectSeq(ids, Present)
  IN /\ Len(items) = Len(present)
     /\ {items[i].id : i \in 1..Len(items)} = Range(present)
     /\ \A i \in 1..Len(items) :
          LET note == NoteOf(notes, items[i].id)
          IN IF note.children = <<>>
             THEN items[i].type = "note" /\ items[i].items = <<>>
             ELSE items[i].type = "category"
                  /\ Emits(items[i].items, note.children)

\* C9: autogeneration from "*" emits exactly the notes whose fname has one
\* segment and is not "root" and, below each, the notes reached through
\* children: a note item for a note without children, a category for a note
\* with children.
C9_AutogenerationFromRoot ==
  (SidebarsDone /\ RootAutogeneration /\ NoChildCycle) =>
    /\ sidebarsResult[1].kind = ""
    /\ Emits(sidebarsResult[1].value[1].sidebar, TopLevelIds)

\* The statement of C9 on the collections where every child id is the id
\* of a note.
AutogenerationWhenChildrenExist == ChildrenExist => C9_AutogenerationFromRoot

\* A root autogeneration over such a collection, with a category below a
\* top-level category and the note "root" in the collection.
RootAutogenerationSeen ==
  /\ SidebarsOk /\ RootAutogeneration /\ ChildrenExist
  /\ \E i \in 1..Len(notes) : notes[i].fname = S_root
  /\ \E item \in ItemsIn(sidebarsResult[1].value[1].sidebar) :
       /\ item.type = "category"
       /\ \E i \in 1..Len(item.items) : item.items[i].type = "category"

-----------------------------------------------------------------------------
(* generateTreeData *)

\* TAGS_HIERARCHY of constants.ts: the prefix of the fname of a tag note.
TAGS_HIERARCHY == TAGS_HIERARCHY_BASE \o <<".">>

\* VaultUtils.getName(vault): the name of the vault, or of its folder.
getName(vault) == IF vault.name # <<>> THEN vault.name[1] ELSE vault.fsPath

\* obj[key] = value
Put(obj, key, value) ==
  [k \in DOMAIN obj \cup {key} |-> IF k = key THEN value ELSE obj[k]]

\* The icon of a note, lines 95-104.
iconOf(note) ==
  IF note.schema THEN "bookOutlined"
  ELSE IF toLowerCase(note.fname) = TAGS_HIERARCHY_BASE THEN "numberOutlined"
  ELSE IF note.stub THEN "plusOutlined"
  ELSE "null"

\* The TreeMenuNode of a note, lines 112-120, without children.
TreeMenuNode(note, title) ==
  [key |-> note.id, title |-> title, icon |-> iconOf(note),
   hasTitleNumberOutlined |->
     /\ Len(note.fname) >= Len(TAGS_HIERARCHY)
     /\ SubSeq(note.fname, 1, Len(TAGS_HIERARCHY)) = TAGS_HIERARCHY,
   vaultName |-> getName(note.vault),
   navExclude |-> note.nav_exclude,
   children |-> <<>>]

\* The walk carries the nodes made so far of the list of items at hand and
\* the two objects the calls write into.
Walk(nodes, child2parentObj, labels) ==
  [nodes |-> nodes, child2parent |-> child2parentObj, notesLabelById |-> labels]

\* The node with its children, after the nodes before it (lines 126-140).
withChildren(nodes, node, sub) ==
  Walk(Append(nodes, [node EXCEPT !.children = sub.nodes]),
       sub.child2parent, sub.notesLabelById)

\* Lines 122-124 writing over the parent recorded before.
overwriteParent(child2parentObj, id, parentOfItem) ==
  Put(child2parentObj, id, parentOfItem)

\* Lines 122-124: the parent is recorded only where none is recorded yet (the
\* values recorded are null or a string, never undefined).
recordParent(child2parentObj, id, parentOfItem) ==
  IF id \in DOMAIN child2parentObj THEN child2parentObj
  ELSE Put(child2parentObj, id, parentOfItem)

RECURSIVE itemToTreeMenuNode(_, _, _, _)
RECURSIVE itemsToTreeMenuNodes(_, _, _, _)
RECURSIVE noteToTreeMenuNode(_, _, _, _)

\* itemToTreeMenuNode for an item whose note is found, lines 95-140.
noteToTreeMenuNode(dict, sidebarItem, parentOfItem, walk) ==
  LET note == dict[sidebarItem.id]
      title == IF sidebarItem.label # <<>> THEN sidebarItem.label[1]
               ELSE note.title
      entered ==
        Walk(<<>>, recordParent(walk.child2parent, note.id, parentOfItem),
             Put(walk.notesLabelById, note.id, title))
  IN withChildren(walk.nodes, TreeMenuNode(note, title),
                  IF sidebarItem.type = "category"
                  THEN itemsToTreeMenuNodes(dict, sidebarItem.items,
                                            Str(note.id), entered)
                  ELSE entered)

\* itemToTreeMenuNode that leaves out the item without note and walks on
\* into its items.
itemToTreeMenuNodeWalkingOn(dict, sidebarItem, parentOfItem, walk) ==
  IF sidebarItem.id \notin DOMAIN dict
  THEN itemsToTreeMenuNodes(dict, sidebarItem.items, parentOfItem, walk)
  ELSE noteToTreeMenuNode(dict, sidebarItem, parentOfItem, walk)

\* itemToTreeMenuNode, lines 79-141, and itemToNote, lines 48-77: walk with
\* the node of the item, if its note is found, and what the call wrote.
itemToTreeMenuNode(dict, sidebarItem, parentOfItem, walk) ==
  IF sidebarItem.id \notin DOMAIN dict THEN walk
  ELSE noteToTreeMenuNode(dict, sidebarItem, parentOfItem, walk)

\* items.map(itemToTreeMenuNode).filter(Boolean), lines 127-137 and 147-157
itemsToTreeMenuNodes(dict, items, parentOfItem, walk) ==
  IF items = <<>> THEN walk
  ELSE itemsToTreeMenuNodes(dict, Tail(items), parentOfItem,
         itemToTreeMenuNode(dict, Head(items), parentOfItem, walk))

\* generateTreeData, lines 44-174: the TreeMenu of the first sidebar (the
\* walks of the other sidebars write into objects of their own).
generateTreeData(dict, sidebarsOfMenu) ==
  LET walk == IF sidebarsOfMenu = <<>> THEN Walk(<<>>, <<>>, <<>>)
              ELSE itemsToTreeMenuNodes(dict, sidebarsOfMenu[1].sidebar, Null,
                                        Walk(<<>>, <<>>, <<>>))
  IN [roots |-> walk.nodes, child2parent |-> walk.child2parent,
      notesLabelById |-> walk.notesLabelById]

\* The inputs of generateTreeData: the note a with each icon, the notes b
\* and c in the collection or not, no note d; sidebars of items down to
\* three levels: the categories of a over b and d, those of d over b, the
\* category of c over b and of b over a, and the categories of a, and one
\* of d, over a category.
MaxMenuItems == 2
MaxNestedItems == 2
MenuNote(id, fname, schema, stub, navExclude) ==
  [id |-> id, fname |-> fname, title |-> <<"T">> \o id, vault |-> HomeVault,
   schema |-> schema, stub |-> stub, nav_exclude |-> navExclude]
MenuDicts ==
  {[id \in present |->
      IF id = IdPool[1] THEN MenuNote(id, fname, schema, stub, FALSE)
      ELSE MenuNote(id, TAGS_HIERARCHY \o id, FALSE, FALSE, TRUE)] :
     present \in {{IdPool[1]}, {IdPool[1], IdPool[2]},
                  {IdPool[1], IdPool[2], IdPool[3]}},
     <<fname, schema, stub>> \in
       {<<IdPool[1], FALSE, FALSE>>, <<IdPool[1], TRUE, TRUE>>,
        <<IdPool[1], FALSE, TRUE>>, <<<<"T", "a", "g", "s">>, FALSE, TRUE>>}}
MenuItems ==
  LET Plain(ids) == {NoteItem(id, <<>>) : id \in ids}
      Flat == {CategoryItem(IdPool[1], <<>>, q) :
                 q \in SeqsUpTo(Plain({IdPool[2], IdPool[4]}), MaxNestedItems)}
              \cup {CategoryItem(IdPool[4], <<>>, q) :
                      q \in SeqsUpTo(Plain({IdPool[2]}), 1)}
      Other == {CategoryItem(IdPool[3], <<>>, <<NoteItem(IdPool[2], <<>>)>>),
                CategoryItem(IdPool[2], <<>>, <<NoteItem(IdPool[1], <<>>)>>)}
      Deep == {CategoryItem(IdPool[1], <<>>, <<c>>) :
                 c \in {f \in Flat : Len(f.items) = 1} \cup Other}
              \cup {CategoryItem(IdPool[4], <<>>,
                      <<CategoryItem(IdPool[1], <<>>,
                                     <<NoteItem(IdPool[2], <<>>)>>)>>)}
  IN Plain({IdPool[i] : i \in 1..4}) \cup {NoteItem(IdPool[1], <<<<"L">>>>)}
     \cup Flat \cup Other \cup Deep
MenuSidebars ==
  {SidebarsOf(<<q>>) : q \in SeqsUpTo(MenuItems, MaxMenuItems)}
  \cup {SidebarsOf(<<q1, q2>>) :
          q1, q2 \in SeqsUpTo({NoteItem(IdPool[i], <<>>) : i \in {1, 4}}, 1)}
  \cup {<<>>}

MenuInit ==
  /\ ParentsIdle /\ SortIdle /\ TreeIdle /\ SidebarIdle
  /\ menuNotes \in MenuDicts
  /\ sidebars \in MenuSidebars
  /\ treeMenu = <<>>

GenerateTreeData ==
  /\ treeMenu = <<>>
  /\ treeMenu' = <<generateTreeData(menuNotes, sidebars)>>
  /\ UNCHANGED <<menuNotes, sidebars>>
  /\ UNCHANGED notMenu

SpecMenu == MenuInit /\ [][GenerateTreeData]_vars

-----------------------------------------------------------------------------
(* Claims on generateTreeData *)

\* The items whose note is in the collection, each with the kept ones of
\* its items, as keys: what is left of a sidebar when every item without
\* note goes with all below it.
RECURSIVE Kept(_)
Kept(items) ==
  LET Found(item) == item.id \in DOMAIN menuNotes
      found == SelectSeq(items, Found)
  IN [k \in 1..Len(found) |->
        [key |-> found[k].id, children |-> Kept(found[k].items)]]

\* The keys of a list of nodes, and of their children.
RECURSIVE ShapeOf(_)
ShapeOf(nodes) ==
  [k \in 1..Len(nodes) |->
     [key |-> nodes[k].key, children |-> ShapeOf(nodes[k].children)]]
RECURSIVE KeysIn(_)
KeysIn(shape) ==
  UNION {{shape[k].key} \cup KeysIn(shape[k].children) : k \in 1..Len(shape)}

\* C10: generateTreeData returns a TreeMenu when items have a note id that
\* is not in the collection: such an item gives no node and nothing below it
\* is visited (no node, no entry of child2parent or notesLabelById), and the
\* other items give their nodes in item order.
C10_MissingNoteTolerated ==
  (treeMenu # <<>> /\ sidebars # <<>>) =>
    /\ ShapeOf(treeMenu[1].roots) = Kept(sidebars[1].sidebar)
    /\ DOMAIN treeMenu[1].child2parent = KeysIn(Kept(sidebars[1].sidebar))
    /\ DOMAIN treeMenu[1].notesLabelById = KeysIn(Kept(sidebars[1].sidebar))

\* A category without note that holds an item with a note found nowhere
\* else, followed by an item with a note: the only root is the second item.
C10_Witness ==
  /\ treeMenu # <<>> /\ sidebars # <<>>
  /\ Len(sidebars[1].sidebar) = 2
  /\ sidebars[1].sidebar[1].type = "category"
  /\ sidebars[1].sidebar[1].id \notin DOMAIN menuNotes
  /\ Len(sidebars[1].sidebar[1].items) > 0
  /\ sidebars[1].sidebar[1].items[1].id \in DOMAIN menuNotes
  /\ sidebars[1].sidebar[1].items[1].id \notin DOMAIN treeMenu[1].child2parent
  /\ Len(treeMenu[1].roots) = 1
  /\ treeMenu[1].roots[1].key = sidebars[1].sidebar[2].id

\* The occurrences of note ids in a list of kept items, in depth-first
\* pre-order, each with the parent it occurs under: the id of the note of
\* the category around it, or null at the top level.
RECURSIVE Occurrences(_, _)
Occurrences(shape, parentOfShape) ==
  IF shape = <<>> THEN <<>>
  ELSE <<[id |-> Head(shape).key, parent |-> parentOfShape]>>
       \o Occurrences(Head(shape).children, Str(Head(shape).key))
       \o Occurrences(Tail(shape), parentOfShape)

\* The occurrences of the sidebar that generateTreeData walks: those of the
\* first sidebar that are not dropped with a branch whose note is missing.
WalkedOccurrences == Occurrences(Kept(sidebars[1].sidebar), Null)

\* Every id of the occurrences is a key of the map, and its value is the
\* parent of the first of its occurrences.
FirstParentsRecorded(occurrences, child2parentObj) ==
  \A i \in 1..Len(occurrences) :
    (\A j \in 1..(i - 1) : occurrences[j].id # occurrences[i].id)
      => /\ occurrences[i].id \in DOMAIN child2parentObj
         /\ child2parentObj[occurrences[i].id] = occurrences[i].parent

\* C11: first parent wins.  For every note id that occurs in the walked
\* sidebar, child2parent[id] is the parent of its first occurrence in
\* depth-first pre-order; no later occurrence under another parent writes
\* over it, also when the first occurrence is at the top level (null).
C11_FirstParentWins ==
  (treeMenu # <<>> /\ sidebars # <<>>) =>
    FirstParentsRecorded(WalkedOccurrences, treeMenu[1].child2parent)

\* A note that occurs first at the top level and later in the category of
\* another note: its parent is null.
C11_Witness ==
  /\ treeMenu # <<>> /\ sidebars # <<>>
  /\ \E i, j \in 1..Len(WalkedOccurrences) :
       /\ i < j
       /\ WalkedOccurrences[i].id = WalkedOccurrences[j].id
       /\ \A k \in 1..(i - 1) :
            WalkedOccurrences[k].id # WalkedOccurrences[i].id
       /\ WalkedOccurrences[i].parent = Null
       /\ WalkedOccurrences[j].parent # Null
       /\ WalkedOccurrences[j].parent # Str(WalkedOccurrences[j].id)
       /\ treeMenu[1].child2parent[WalkedOccurrences[i].id] = Null

\* A note that occurs in the categories of two other notes, first in one
\* and later in the other.
TwoParentsSeen ==
  /\ treeMenu # <<>> /\ sidebars # <<>>
  /\ \E i, j \in 1..Len(WalkedOccurrences) :
       /\ i < j
       /\ WalkedOccurrences[i].id = WalkedOccurrences[j].id
       /\ WalkedOccurrences[i].parent \notin {Null, WalkedOccurrences[j].parent}
       /\ WalkedOccurrences[j].parent # Null
       /\ WalkedOccurrences[i].parent # Str(WalkedOccurrences[i].id)
       /\ WalkedOccurrences[j].parent # Str(WalkedOccurrences[i].id)

-----------------------------------------------------------------------------
(* validateTreeNodes on any two trees *)

\* The trees compared: a root named a or b over at most MaxRootChildren
\* nodes named b or c, each over at most one node named b or c.
ValidatedTrees ==
  LET Names == {<<"b">>, <<"c">>}
      Leaves == {TreeNode(f, <<>>) : f \in Names}
      Inner == {TreeNode(f, c) : f \in Names, c \in SeqsUpTo(Leaves, 1)}
  IN {TreeNode(f, c) : f \in {<<"a">>, <<"b">>},
                       c \in SeqsUpTo(Inner, MaxRootChildren)}

\* validateTreeNodes is called with two trees of any origin.
ValidateInit ==
  /\ ParentsIdle /\ SortIdle /\ SidebarIdle /\ MenuIdle
  /\ allNotes = <<>> /\ rootNoteId = <<>> /\ fNames = <<>> /\ rootNote = <<>>
  /\ fileTree \in {<<t>> : t \in ValidatedTrees}
  /\ engineTree \in {<<[threw |-> FALSE, tree |-> t]>> : t \in ValidatedTrees}
  /\ validation = <<>>

SpecValidate == ValidateInit /\ [][ValidateTreeNodes]_vars

\* Two trees are equal when their fnames are equal and their children are
\* equal as trees, whatever the order of the siblings: some one-to-one
\* pairing of the children pairs equal trees.
RECURSIVE SameTree(_, _)
SameTree(s, t) ==
  /\ s.fname = t.fname
  /\ Len(s.children) = Len(t.children)
  /\ \E p \in [1..Len(s.children) -> 1..Len(s.children)] :
       /\ \A i, j \in 1..Len(s.children) : p[i] = p[j] => i = j
       /\ \A i \in 1..Len(s.children) :
            SameTree(s.children[i], t.children[p[i]])

\* No two siblings of the tree have the same fname.
RECURSIVE SiblingsDiffer(_)
SiblingsDiffer(t) ==
  /\ \A i, j \in 1..Len(t.children) :
       t.children[i].fname = t.children[j].fname => i = j
  /\ \A i \in 1..Len(t.children) : SiblingsDiffer(t.children[i])

\* C12: validateTreeNodes returns success if and only if the two trees are
\* equal, where the order of siblings does not count, also when several
\* siblings have the same fname and different subtrees in different order;
\* for trees that are not equal it returns an error value.
C12_ValidateIffSameTree ==
  validation # <<>> =>
    (validation[1] = <<>> <=> SameTree(fileTree[1], engineTree[1].tree))

\* The same where one of the two trees has no two siblings of one fname.
ValidateIffSameTreeWhenSiblingsDiffer ==
  (/\ validation # <<>>
   /\ SiblingsDiffer(fileTree[1]) \/ SiblingsDiffer(engineTree[1].tree)) =>
    (validation[1] = <<>> <=> SameTree(fileTree[1], engineTree[1].tree))

\* An error is returned for two trees that are not equal, whatever their
\* siblings' fnames.
ValidateRejectsOtherTrees ==
  (validation # <<>> /\ ~SameTree(fileTree[1], engineTree[1].tree)) =>
    validation[1] # <<>>

-----------------------------------------------------------------------------
(* Claims on the expansion of an autogenerated item *)

\* The configuration is one sidebar of one item that is an autogenerated
\* item, or a category of a note that holds one autogenerated item, and the
\* anchor of the autogenerated item is the root keyword or the id of a note.
AnchorRef ==
  IF input[1].sidebar[1].type = "autogenerated" THEN input[1].sidebar[1].id
  ELSE input[1].sidebar[1].items[1].id
OneExpansion ==
  /\ Len(input) = 1
  /\ Len(input[1].sidebar) = 1
  /\ \/ input[1].sidebar[1].type = "autogenerated"
     \/ /\ input[1].sidebar[1].type = "category"
        /\ ~Unmatched(input[1].sidebar[1].id)
        /\ Len(input[1].sidebar[1].items) = 1
        /\ input[1].sidebar[1].items[1].type = "autogenerated"
  /\ AnchorRef = ROOT_KEYWORD \/ HasNote(notes, AnchorRef)

\* The ids the expansion starts from, and the items it gave.
SourceIds ==
  IF AnchorRef = ROOT_KEYWORD THEN TopLevelIds
  ELSE NoteOf(notes, AnchorRef).children
ExpandedItems ==
  IF input[1].sidebar[1].type = "autogenerated"
  THEN sidebarsResult[1].value[1].sidebar
  ELSE sidebarsResult[1].value[1].sidebar[1].items

\* The note x is not after the note y in ascending order: by nav_order, a
\* note without one after those with one, then by fname.
NotAfter(x, y) ==
  LET nx == NoteOf(notes, x).nav_order
      ny == NoteOf(notes, y).nav_order
  IN IF nx # <<>> /\ ny # <<>> /\ nx[1] # ny[1] THEN nx[1] < ny[1]
     ELSE IF nx = <<>> /\ ny # <<>> THEN FALSE
     ELSE IF nx # <<>> /\ ny = <<>> THEN TRUE
     ELSE ~StrLess(NoteOf(notes, y).fname, NoteOf(notes, x).fname)

\* The list of siblings is in ascending order, or the reverse of a list in
\* ascending order.
SiblingsInOrder(items, reverse) ==
  LET ids == [i \in 1..Len(items) |-> items[i].id]
      asc == IF reverse THEN reverseSeq(ids) ELSE ids
  IN \A i \in 1..(Len(asc) - 1) : NotAfter(asc[i], asc[i + 1])

\* The list is in the order asked for, and the items of each category in it
\* are in the order the category's note asks for, at every depth.
RECURSIVE ExpansionInOrder(_, _)
ExpansionInOrder(items, reverse) ==
  /\ SiblingsInOrder(items, reverse)
  /\ \A i \in 1..Len(items) :
       items[i].type = "category" =>
         ExpansionInOrder(items[i].items,
                          NoteOf(notes, items[i].id).sort_order = "reverse")

AnchorReverse ==
  /\ AnchorRef # ROOT_KEYWORD
  /\ NoteOf(notes, AnchorRef).sort_order = "reverse"

\* C13: every list of siblings of the expansion of an autogenerated item is
\* ordered by nav_order ascending, the notes without one last, then by
\* fname ascending, and is the exact reverse of that order when the note
\* whose children the siblings are has sort_order reverse; at every level,
\* the children of the anchor note included.
C13_AutogeneratedOrder ==
  (SidebarsOk /\ OneExpansion) => ExpansionInOrder(ExpandedItems, AnchorReverse)

\* The children of the anchor note are in ascending order whatever its
\* sort_order, and the lists below them in the order of their notes.
AnchorChildrenAscending ==
  (SidebarsOk /\ OneExpansion) => ExpansionInOrder(ExpandedItems, FALSE)

\* An expansion with a category of a note with sort_order reverse, whose two
\* items are in the reverse of the ascending order and not in ascending
\* order.
ReversedCategorySeen ==
  /\ SidebarsOk /\ OneExpansion
  /\ \E i \in 1..Len(ExpandedItems) :
       /\ ExpandedItems[i].type = "category"
       /\ NoteOf(notes, ExpandedItems[i].id).sort_order = "reverse"
       /\ Len(ExpandedItems[i].items) = 2
       /\ ~SiblingsInOrder(ExpandedItems[i].items, FALSE)
       /\ SiblingsInOrder(ExpandedItems[i].items, TRUE)

\* An id without note is among the ids the expansion starts from or among
\* the children of a note it reaches.
DanglingChildReached ==
  \E id \in Below(Range(SourceIds), Len(notes)) : ~HasNote(notes, id)

\* C14: when a note reached by the expansion of an autogenerated item lists
\* a child id that no note has, the child gives no item and getSidebars
\* returns a successful result with the items of the other notes.
C14_DanglingChildSkipped ==
  (SidebarsDone /\ OneExpansion /\ NoChildCycle /\ DanglingChildReached) =>
    /\ sidebarsResult[1].kind = ""
    /\ Emits(ExpandedItems, SourceIds)

\* What getSidebars returns then: no value and, as its error, the TypeError
\* of the read of children of undefined (the RangeError of a stack overflow
\* where a cycle of children comes first), neither DOES_NOT_EXIST nor
\* INVALID_CONFIG.
DanglingChildIsTypeError ==
  (SidebarsDone /\ OneExpansion /\ DanglingChildReached) =>
    /\ sidebarsResult[1].kind = "Err"
    /\ sidebarsResult[1].error.name \in {"TypeError", "RangeError"}
    /\ NoChildCycle => sidebarsResult[1].error.name = "TypeError"
    /\ sidebarsResult[1].error.status = ""
    /\ sidebarsResult[1].value = <<>>

\* The expansion gives the items of the notes it reaches when each of their
\* child ids is the id of a note.
ExpansionWhenChildrenExist ==
  (SidebarsDone /\ OneExpansion /\ NoChildCycle /\ ~DanglingChildReached) =>
    /\ sidebarsResult[1].kind = ""
    /\ Emits(ExpandedItems, SourceIds)

-----------------------------------------------------------------------------
(* getAllParents on the child2parent of a TreeMenu *)

\* The loop of lines 185-188 with push in the place of unshift.
RECURSIVE walkParentsPushing(_, _, _, _)
walkParentsPushing(child2parentObj, parentValue, active, fuel) ==
  IF ~Truthy(parentValue) THEN [done |-> TRUE, ids |-> active]
  ELSE IF fuel = 0 THEN [done |-> FALSE, ids |-> active]
  ELSE walkParentsPushing(child2parentObj,
                          Lookup(child2parentObj, parentValue.s),
                          Append(active, parentValue.s), fuel - 1)

\* The loop of lines 185-188 from the value of parent and of activeNoteIds
\* on: the ids returned, or not done when the loop makes more iterations
\* than fuel, which a loop that is not on a cycle of parents never does with
\* as much fuel as the map has keys.
RECURSIVE walkParents(_, _, _, _)
walkParents(child2parentObj, parentValue, active, fuel) ==
  IF ~Truthy(parentValue) THEN [done |-> TRUE, ids |-> active]
  ELSE IF fuel = 0 THEN [done |-> FALSE, ids |-> active]
  ELSE walkParents(child2parentObj, Lookup(child2parentObj, parentValue.s),
                   <<parentValue.s>> \o active, fuel - 1)

\* getAllParents({ child2parent, noteId }), lines 176-191
getAllParents(child2parentObj, id) ==
  walkParents(child2parentObj, Lookup(child2parentObj, id), <<>>,
              Cardinality(DOMAIN child2parentObj))

\* ids is the chain of the ancestors of the key in the map, the root first:
\* the first id has parent null, every other id has the id before it as
\* parent, the key has the last id as parent, and no id is on it twice.
IsAncestorChain(child2parentObj, key, ids) ==
  /\ child2parentObj[key] = IF ids = <<>> THEN Null ELSE Str(ids[Len(ids)])
  /\ \A i \in 1..Len(ids) :
       /\ ids[i] \in DOMAIN child2parentObj
       /\ child2parentObj[ids[i]] = IF i = 1 THEN Null ELSE Str(ids[i - 1])
       /\ ids[i] # key
       /\ \A j \in 1..Len(ids) : ids[i] = ids[j] => i = j

\* C15: the child2parent of the TreeMenu of generateTreeData is closed (a
\* parent that is not null is a key of the map) and acyclic, also when a
\* note id occurs several times in the sidebar or a category holds its own
\* note; so getAllParents returns on it for every note id, and for a key of
\* the map it returns the chain of the key's ancestors, the root first.
C15_ParentsOfTreeMenu ==
  treeMenu # <<>> =>
    /\ \A key \in DOMAIN treeMenu[1].child2parent :
         \/ treeMenu[1].child2parent[key] = Null
         \/ /\ treeMenu[1].child2parent[key].t = "string"
            /\ treeMenu[1].child2parent[key].s
                 \in DOMAIN treeMenu[1].child2parent
    /\ \A i \in 1..Len(IdPool) :
         getAllParents(treeMenu[1].child2parent, IdPool[i]).done
    /\ \A key \in DOMAIN treeMenu[1].child2parent :
         IsAncestorChain(treeMenu[1].child2parent, key,
                         getAllParents(treeMenu[1].child2parent, key).ids)

\* A sidebar where a category holds a category of its own note and a note
\* occurs below two notes, and a key of the map with two ancestors.
C15_Witness ==
  /\ treeMenu # <<>> /\ sidebars # <<>>
  /\ \E j \in 1..Len(WalkedOccurrences) :
       WalkedOccurrences[j].parent = Str(WalkedOccurrences[j].id)
  /\ \E i, j \in 1..Len(WalkedOccurrences) :
       /\ WalkedOccurrences[i].id = WalkedOccurrences[j].id
       /\ WalkedOccurrences[i].parent # WalkedOccurrences[j].parent
       /\ WalkedOccurrences[i].parent # Str(WalkedOccurrences[i].id)
       /\ WalkedOccurrences[j].parent # Str(WalkedOccurrences[i].id)
  /\ \E key \in DOMAIN treeMenu[1].child2parent :
       Len(getAllParents(treeMenu[1].child2parent, key).ids) = 2

====
